---- MODULE Spec2Model ----
(***************************************************************************)
(* SlothRanking (ranking.py): the player roster, the Elo update, the       *)
(* composite SlothRating, the two rating fetches and the command loop of   *)
(* main().                                                                 *)
(*                                                                         *)
(* Arithmetic.  The program computes in IEEE doubles; the model computes   *)
(* in fixed point.  An Elo rating is an integer number of 1/EloScale       *)
(* rating points, an expected score an integer number of 1/ScoreScale,     *)
(* where ScoreScale = K_FACTOR * EloScale, so that K * (result - exp) is a *)
(* whole number of rating units and the update itself adds no rounding.    *)
(* 10 ** x is interpolated from a table; round() is Python 3's round half  *)
(* to even.                                                                *)
(***************************************************************************)
EXTENDS Integers, Sequences, FiniteSets, TLC

VARIABLES
    pl,     \* main(): the player list `pl`, a sequence of Player objects
    pc,     \* main(): "aligs", "mmrs", "loop", "ended" or "crashed"
    out,    \* what the last step printed to the console
    file,   \* the contents of the player file plFile
    logf    \* the contents of log.txt (lines appended by log())

vars == <<pl, pc, out, file, logf>>

----------------------------------------------------------------------------
(* Program constants *)

K_FACTOR == 32

\* ELO_WEIGHT = 0.5, ALIG_WEIGHT = 0.3, MMR_WEIGHT = 0.2, in tenths
ELO_WEIGHT == 5
ALIG_WEIGHT == 3
MMR_WEIGHT == 2

----------------------------------------------------------------------------
(* Bounds of the model *)

EloScale == 100     \* rating units per rating point
MaxRoster == 3      \* lines in the player file
MaxTeams == 2       \* teams returned by the ladder endpoints, all divisions together
MaxResults == 1     \* results applied in one session

ScoreScale == K_FACTOR * EloScale

\* The player file, one line "Name AligulacID BnetID Elo" per player: its
\* first 1..MaxRoster lines of
AllLines ==
    << [name |-> "Foo", alig |-> "1", bnet |-> "5",  elo |-> 2000 * EloScale],
       [name |-> "Foo", alig |-> "2", bnet |-> "7",  elo |-> 2100 * EloScale],
       [name |-> "Bar", alig |-> "3", bnet |-> "5",  elo |-> 2000 * EloScale],
       [name |-> "Bar", alig |-> "4", bnet |-> "05", elo |-> 1900 * EloScale] >>

PlayerFiles == { SubSeq(AllLines, 1, n) : n \in 1..MaxRoster }

\* current_rating.rating of the objects of the Aligulac response, in
\* thousandths: the first j players at the higher rating, the others at the
\* lower
AligNatives == [high |-> 1138, low |-> 1000]
AligResponses(n) ==
    { [k \in 1..n |-> IF k <= j THEN AligNatives.high ELSE AligNatives.low] : j \in 0..n }

\* (legacy_link.id, rating) of the teams of the ladder responses
TeamIds == {5, 7}
TeamRatings == {0, 4000}
Teams == [id : TeamIds, rating : TeamRatings]
TeamLists == UNION { [1..n -> Teams] : n \in 0..MaxTeams }

\* Input lines, as the token list split() makes of them: name relation name,
\* cut short or followed by one more token
NameTokens == {"Foo", "Bar"}
RelTokens == {">", "<", "><"}
FullLines == { <<a, r, b>> : a \in NameTokens, r \in RelTokens, b \in NameTokens }
ResultLines ==
    { SubSeq(t, 1, n) : t \in FullLines, n \in 0..3 } \cup { t \o <<"x">> : t \in FullLines }

----------------------------------------------------------------------------
(* Arithmetic helpers *)

\* Python 3 round(num / den), den > 0: to the nearest integer, ties to even
RoundHalfEven(num, den) ==
    LET q == num \div den
        r == num % den
    IN  IF 2 * r < den THEN q
        ELSE IF 2 * r > den THEN q + 1
        ELSE IF q % 2 = 0 THEN q ELSE q + 1

\* num / den to the nearest integer (num >= 0, den > 0)
Nearest(num, den) == (2 * num + den) \div (2 * den)

RECURSIVE Pow10Int(_)
Pow10Int(n) == IF n = 0 THEN 1 ELSE 10 * Pow10Int(n - 1)

\* 1000 * 10 ** (j / 8), j = 0..8
Pow10Table == <<1000, 1334, 1778, 2371, 3162, 4217, 5623, 7499, 10000>>

\* 1000 * 10 ** (r / (400 * EloScale)) for 0 <= r < 400 * EloScale
Pow10Frac(r) ==
    LET seg == (400 * EloScale) \div 8
        j   == r \div seg
        f   == r % seg
    IN  Pow10Table[j + 1] + ((Pow10Table[j + 2] - Pow10Table[j + 1]) * f) \div seg

----------------------------------------------------------------------------
(* Player, expected, adjustElo, result *)

\* Player.__init__: aligRating and mmr are 1 until fetched, sr is 0;
\* id is the object's identity (its line of the player file)
Player(id, name, alig, bnet, elo) ==
    [id |-> id, name |-> name, alig |-> alig, bnet |-> bnet, elo |-> elo,
     aligRating |-> 1, mmr |-> 1, sr |-> 0]

\* expected(elo1, elo2) = 1 / (1 + 10 ** ((elo2 - elo1) / 400)), in 1/ScoreScale.
\* The ratings of the model stay far inside the range in which the double
\* 10 ** x is finite (elo2 - elo1 below some 123 300 points); beyond it the
\* program raises OverflowError before it changes any rating.
expected(elo1, elo2) ==
    LET g == 400 * EloScale
        d == elo2 - elo1
        q == d \div g
        t == Pow10Frac(d % g)
    IN  IF q >= 5 THEN 0
        ELSE IF q >= 0
             THEN Nearest(ScoreScale * 1000, 1000 + t * Pow10Int(q))
        ELSE IF q >= -5
             THEN ScoreScale - Nearest(ScoreScale * t, 1000 * Pow10Int(-q) + t)
        ELSE ScoreScale

\* adjustElo(oldElo, exp, result, k) = oldElo + k * (result - exp); exp and
\* result in 1/ScoreScale, so k * (result - exp) points is (result - exp) units
\* for k = K_FACTOR
adjustElo(oldElo, exp, res) ==
    oldElo + (K_FACTOR * EloScale * (res - exp)) \div ScoreScale

\* result with the expected score computed again from the ratings after the
\* first update
resultRecomputed(l, i, j, winner) ==
    LET ex   == expected(l[i].elo, l[j].elo)
        res1 == IF winner = 1 THEN ScoreScale ELSE 0
        res2 == IF winner = 1 THEN 0 ELSE ScoreScale
        l1   == [l EXCEPT ![i].elo = adjustElo(l[i].elo, ex, res1)]
        ex2  == expected(l1[j].elo, l1[i].elo)
    IN  IF winner \notin {1, 2} THEN l
        ELSE [l1 EXCEPT ![j].elo = adjustElo(l1[j].elo, ex2, res2)]

\* result with the scores of the first branch repeated in the second
resultSameScores(l, i, j, winner) ==
    LET ex == expected(l[i].elo, l[j].elo)
        l1 == [l EXCEPT ![i].elo = adjustElo(l[i].elo, ex, ScoreScale)]
    IN  IF winner \notin {1, 2} THEN l
        ELSE [l1 EXCEPT ![j].elo = adjustElo(l1[j].elo, ScoreScale - ex, 0)]

\* result(p1, p2, winner) on the players at positions i and j of l: the list
\* after the call; any winner other than 1 and 2 returns before the update
result(l, i, j, winner) ==
    LET ex   == expected(l[i].elo, l[j].elo)
        res1 == IF winner = 1 THEN ScoreScale ELSE 0
        res2 == IF winner = 1 THEN 0 ELSE ScoreScale
        new1 == adjustElo(l[i].elo, ex, res1)
        l1   == [l EXCEPT ![i].elo = new1]
        new2 == adjustElo(l1[j].elo, ScoreScale - ex, res2)
    IN  IF winner \notin {1, 2} THEN l
        ELSE [l1 EXCEPT ![j].elo = new2]

----------------------------------------------------------------------------
(* getPlayerList, setAligRatings, setMMRs, setSRs, savePlayersToFile *)

getPlayerList(f) ==
    [k \in 1..Len(f) |-> Player(k, f[k].name, f[k].alig, f[k].bnet, f[k].elo)]

\* setAligRatings: the k-th object of the response sets the k-th player
setAligRatings(l, objects) ==
    [k \in 1..Len(l) |->
        [l[k] EXCEPT !.aligRating = RoundHalfEven(objects[k] + 1000, 1)]]

\* str(id) of a non-negative integer
Digits == <<"0", "1", "2", "3", "4", "5", "6", "7", "8", "9">>
RECURSIVE Str(_)
Str(n) == IF n < 10 THEN Digits[n + 1] ELSE Str(n \div 10) \o Digits[(n % 10) + 1]

\* bnetIdDict: idDict[p.bnet] = p for each p in turn, so a later player
\* replaces an earlier one with the same bnet id; 0 when the key is absent
bnetIdDict(l, key) ==
    LET hits == {k \in 1..Len(l) : l[k].bnet = key}
    IN  IF hits = {} THEN 0 ELSE CHOOSE k \in hits : \A h \in hits : h <= k

\* one team of a ladder response
SetMMRTeam(l, team) ==
    LET k == bnetIdDict(l, Str(team.id))
    IN  IF k # 0 /\ team.rating > l[k].mmr
        THEN [l EXCEPT ![k].mmr = team.rating]
        ELSE l

\* setMMRs: the teams of the grandmaster ladder, then of each master ladder
RECURSIVE setMMRs(_, _)
setMMRs(l, teams) ==
    IF teams = <<>> THEN l
    ELSE setMMRs(SetMMRTeam(l, Head(teams)), Tail(teams))

\* p.sr with the Elo term left unrounded
SlothRatingOneRound(p) ==
    RoundHalfEven((p.aligRating * ALIG_WEIGHT + p.mmr * MMR_WEIGHT) * EloScale
                    + p.elo * ELO_WEIGHT,
                  10 * EloScale)

\* p.sr of one player
SlothRating(p) ==
    RoundHalfEven(p.aligRating * ALIG_WEIGHT + p.mmr * MMR_WEIGHT
                    + 10 * RoundHalfEven(p.elo * ELO_WEIGHT, 10 * EloScale),
                  10)

setSRs(l) == [k \in 1..Len(l) |-> [l[k] EXCEPT !.sr = SlothRating(l[k])]]

\* list.sort(key=sr, reverse=True): stable, players of equal sr keep the
\* order they have in the list being sorted
\* the insertion placing a player before the players of equal sr
RECURSIVE InsertBeforeEqual(_, _)
InsertBeforeEqual(sorted, p) ==
    IF sorted = <<>> THEN <<p>>
    ELSE IF Head(sorted).sr > p.sr
         THEN <<Head(sorted)>> \o InsertBeforeEqual(Tail(sorted), p)
         ELSE <<p>> \o sorted

RECURSIVE InsertBySR(_, _)
InsertBySR(sorted, p) ==
    IF sorted = <<>> THEN <<p>>
    ELSE IF Head(sorted).sr >= p.sr
         THEN <<Head(sorted)>> \o InsertBySR(Tail(sorted), p)
         ELSE <<p>> \o sorted

RECURSIVE SortBySR(_)
SortBySR(l) ==
    IF l = <<>> THEN <<>>
    ELSE InsertBySR(SortBySR(SubSeq(l, 1, Len(l) - 1)), l[Len(l)])

\* savePlayersToFile: one line "name alig bnet elo" per player of the list
savePlayersToFile(l) ==
    [k \in 1..Len(l) |->
        [name |-> l[k].name, alig |-> l[k].alig, bnet |-> l[k].bnet, elo |-> l[k].elo]]

----------------------------------------------------------------------------
(* readResultString *)

NotRecognized == "Input not recognized"
NotFound == "One of the players was not found, please try again."
Improper == "Improper use of result string"

\* The loop over playerList: p1 is the last player named resArray[0]; p2 the
\* last player not named resArray[0] and named resArray[2]; resArray[2] is
\* read for every player not named resArray[0], an IndexError when the line
\* has fewer than three tokens.  0 stands for None.
\* the loop leaving at the first player found for each name
RECURSIVE FindPlayersFirst(_, _, _, _, _)
FindPlayersFirst(resArray, l, k, p1, p2) ==
    IF k > Len(l) THEN [p1 |-> p1, p2 |-> p2, raised |-> FALSE]
    ELSE IF Len(resArray) = 0 THEN [p1 |-> p1, p2 |-> p2, raised |-> TRUE]
    ELSE IF resArray[1] = l[k].name
         THEN FindPlayersFirst(resArray, l, k + 1, IF p1 = 0 THEN k ELSE p1, p2)
    ELSE IF Len(resArray) < 3 THEN [p1 |-> p1, p2 |-> p2, raised |-> TRUE]
    ELSE IF resArray[3] = l[k].name
         THEN FindPlayersFirst(resArray, l, k + 1, p1, IF p2 = 0 THEN k ELSE p2)
    ELSE FindPlayersFirst(resArray, l, k + 1, p1, p2)

RECURSIVE FindPlayers(_, _, _, _, _)
FindPlayers(resArray, l, k, p1, p2) ==
    IF k > Len(l) THEN [p1 |-> p1, p2 |-> p2, raised |-> FALSE]
    ELSE IF Len(resArray) = 0 THEN [p1 |-> p1, p2 |-> p2, raised |-> TRUE]
    ELSE IF resArray[1] = l[k].name THEN FindPlayers(resArray, l, k + 1, k, p2)
    ELSE IF Len(resArray) < 3 THEN [p1 |-> p1, p2 |-> p2, raised |-> TRUE]
    ELSE IF resArray[3] = l[k].name THEN FindPlayers(resArray, l, k + 1, p1, k)
    ELSE FindPlayers(resArray, l, k + 1, p1, p2)

\* readResultString taking every relation other than ">" for "<"
readResultStringNoElse(resArray, l, lg) ==
    LET said  == IF Len(resArray) # 3 THEN <<NotRecognized>> ELSE <<>>
        found == FindPlayers(resArray, l, 1, 0, 0)
    IN  IF found.raised
        THEN [pl |-> l, out |-> said, logf |-> lg, raised |-> TRUE]
        ELSE IF found.p1 = 0 \/ found.p2 = 0
        THEN [pl |-> l, out |-> Append(said, NotFound), logf |-> lg, raised |-> FALSE]
        ELSE IF resArray[2] = ">"
        THEN [pl |-> result(l, found.p1, found.p2, 1), out |-> said,
              logf |-> Append(lg, resArray), raised |-> FALSE]
        ELSE [pl |-> result(l, found.p1, found.p2, 2), out |-> said,
              logf |-> Append(lg, resArray), raised |-> FALSE]

\* readResultString(resString, playerList): the list, the console output and
\* the log after the call, and whether the call raised
readResultString(resArray, l, lg) ==
    LET said  == IF Len(resArray) # 3 THEN <<NotRecognized>> ELSE <<>>
        found == FindPlayers(resArray, l, 1, 0, 0)
    IN  IF found.raised
        THEN [pl |-> l, out |-> said, logf |-> lg, raised |-> TRUE]
        ELSE IF found.p1 = 0 \/ found.p2 = 0
        THEN [pl |-> l, out |-> Append(said, NotFound), logf |-> lg, raised |-> FALSE]
        ELSE IF resArray[2] = ">"
        THEN [pl |-> result(l, found.p1, found.p2, 1), out |-> said,
              logf |-> Append(lg, resArray), raised |-> FALSE]
        ELSE IF resArray[2] = "<"
        THEN [pl |-> result(l, found.p1, found.p2, 2), out |-> said,
              logf |-> Append(lg, resArray), raised |-> FALSE]
        ELSE [pl |-> l, out |-> Append(said, Improper), logf |-> lg, raised |-> FALSE]

----------------------------------------------------------------------------
(* main *)

\* pl = getPlayerList(plFile)
Init ==
    /\ file \in PlayerFiles
    /\ pl = getPlayerList(file)
    /\ pc = "aligs"
    /\ out = <<>>
    /\ logf = <<>>

\* setAligRatings(pl)
FetchAligRatings ==
    /\ pc = "aligs"
    /\ \E objects \in AligResponses(Len(pl)) :
          pl' = setAligRatings(pl, objects)
    /\ pc' = "mmrs"
    /\ out' = <<"Fetching aligulac ratings...">>
    /\ UNCHANGED <<file, logf>>

\* setMMRs(pl)
FetchMMRs ==
    /\ pc = "mmrs"
    /\ \E teams \in TeamLists : pl' = setMMRs(pl, teams)
    /\ pc' = "loop"
    /\ out' = <<"Fetching ladder MMRs...">>
    /\ UNCHANGED <<file, logf>>

\* inp == "print": setSRs(pl); printRatingList(pl)
PrintCmd ==
    /\ pc = "loop"
    /\ pl' = SortBySR(setSRs(pl))
    /\ out' = <<"Rank">>
    /\ UNCHANGED <<pc, file, logf>>

\* inp == "exit": savePlayersToFile(pl, plFile); break
ExitCmd ==
    /\ pc = "loop"
    /\ file' = savePlayersToFile(pl)
    /\ pc' = "ended"
    /\ out' = <<"Ending program">>
    /\ UNCHANGED <<pl, logf>>

\* inp == "forcequit": break
ForceQuitCmd ==
    /\ pc = "loop"
    /\ pc' = "ended"
    /\ out' = <<"Ending program">>
    /\ UNCHANGED <<pl, file, logf>>

\* any other input: readResultString(inp, pl)
ResultStep(resArray) ==
    LET r == readResultString(resArray, pl, logf)
    IN  /\ pc = "loop"
        /\ r.logf # logf => Len(logf) < MaxResults
        /\ pl' = r.pl
        /\ out' = r.out
        /\ logf' = r.logf
        /\ pc' = IF r.raised THEN "crashed" ELSE "loop"
        /\ UNCHANGED file

ResultCmd == \E resArray \in ResultLines : ResultStep(resArray)

Next ==
    \/ FetchAligRatings
    \/ FetchMMRs
    \/ PrintCmd
    \/ ExitCmd
    \/ ForceQuitCmd
    \/ ResultCmd

Spec == Init /\ [][Next]_vars

----------------------------------------------------------------------------
(* Vocabulary of the properties *)

\* the record with identity id, wherever the list holds it
RecordOf(l, id) == l[CHOOSE k \in 1..Len(l) : l[k].id = id]
EloOf(l, id) == RecordOf(l, id).elo
Identities == 1..Len(pl)

ElosUnchanged == \A id \in Identities : EloOf(pl', id) = EloOf(pl, id)

ErrorMessages == {NotRecognized, NotFound, Improper}
ErrorSaid(o) == \E k \in 1..Len(o) : o[k] \in ErrorMessages

Named(l, name) == {k \in 1..Len(l) : l[k].name = name}
LastNamed(l, name) == CHOOSE k \in Named(l, name) : \A h \in Named(l, name) : h <= k
FirstNamed(l, name) == CHOOSE k \in Named(l, name) : \A h \in Named(l, name) : k <= h

RECURSIVE EloTotal(_)
EloTotal(l) == IF l = <<>> THEN 0 ELSE Head(l).elo + EloTotal(Tail(l))

\* a step of the loop that applied a result: it appended the line to the log
Applied == pc = "loop" /\ Len(logf') = Len(logf) + 1
AppliedLine == logf'[Len(logf')]

\* the position in the list l of the record with identity id
PositionOf(l, id) == CHOOSE k \in 1..Len(l) : l[k].id = id

----------------------------------------------------------------------------
(* C1 *)

\* C1: a result line that does not split into exactly three tokens is
\* reported as an input error, changes no player's elo, and the loop goes on
\* to the next input.
C1_BadTokenCountRejected ==
    [][\A t \in ResultLines :
          (Len(t) # 3 /\ ResultStep(t)) =>
              (ErrorSaid(out') /\ ElosUnchanged /\ pc' = "loop")]_vars

----------------------------------------------------------------------------
(* C2 *)

BadRelationOrName(t) ==
    \/ t[2] \notin {">", "<"}
    \/ Named(pl, t[1]) = {}
    \/ Named(pl, t[3]) = {}

\* C2: a three-token line whose relation is neither > nor <, or one of whose
\* names is no player's, produces an error message and changes no elo: a
\* step is such, or is the step of no such line.
C2_BadLineRejected ==
    [][\/ ErrorSaid(out') /\ ElosUnchanged
       \/ ~\E t \in ResultLines :
              Len(t) = 3 /\ BadRelationOrName(t) /\ ResultStep(t)]_vars

\* a three-token line with both names in the roster and the relation "><"
\* has just been refused
C2_Witness == pc = "loop" /\ out = <<Improper>>

----------------------------------------------------------------------------
(* C3 *)

\* C3: a step that applies a result changes the elo of two distinct records,
\* A of the line's first name and B of its second: with exp the expected
\* score of A against B from the ratings before the step, A moves by
\* K * (1 - exp) and B by the opposite amount when A wins, A by -K * exp and
\* B by the opposite amount when B wins; so the winner's elo does not
\* decrease, the amount is at most K_FACTOR points and the total elo of the
\* roster is kept.
C3_EqualOppositeBounded ==
    [][Applied =>
          /\ \E a \in Named(pl, AppliedLine[1]), b \in Named(pl, AppliedLine[3]) :
                LET exp == expected(pl[a].elo, pl[b].elo)
                    da  == pl'[a].elo - pl[a].elo
                    db  == pl'[b].elo - pl[b].elo
                    dw  == IF AppliedLine[2] = ">" THEN da ELSE db
                IN  /\ a # b
                    /\ da = IF AppliedLine[2] = ">" THEN ScoreScale - exp ELSE -exp
                    /\ db = -da
                    /\ dw >= 0
                    /\ dw <= K_FACTOR * EloScale
          /\ EloTotal(pl') = EloTotal(pl)]_vars

\* a result has been applied and has moved a rating off its loaded value
C3_Witness ==
    /\ Len(logf) >= 1
    /\ \E k \in 1..Len(pl) : pl[k].elo # AllLines[pl[k].id].elo

----------------------------------------------------------------------------
(* C4 *)

\* C4: a player's elo changes only in a step of the loop that accepts a
\* result line (reports no input error) naming that player.
C4_EloOnlyByAcceptedResult ==
    [][\A id \in Identities :
          EloOf(pl', id) # EloOf(pl, id) =>
              /\ Applied
              /\ ~ErrorSaid(out')
              /\ RecordOf(pl, id).name \in {AppliedLine[1], AppliedLine[3]}]_vars

----------------------------------------------------------------------------
(* C5 *)

\* round(statRating * 0.3 + ladderRating * 0.2 + round(eloRating * 0.5))
CompositeFormula(stat, ladder, elo) ==
    RoundHalfEven(3 * stat + 2 * ladder + 10 * RoundHalfEven(elo, 2 * EloScale), 10)

\* C5: when the ranking has just been displayed, every record's sr is the
\* formula on its current ratings; 2000, 4000 and 2100 give 2450; computing
\* the ratings again changes nothing.
C5_CompositeIsFormula ==
    out = <<"Rank">> =>
        /\ \A k \in 1..Len(pl) :
              /\ pl[k].sr = CompositeFormula(pl[k].aligRating, pl[k].mmr, pl[k].elo)
              /\ (/\ pl[k].aligRating = 2000
                  /\ pl[k].mmr = 4000
                  /\ pl[k].elo = 2100 * EloScale) => pl[k].sr = 2450
        /\ setSRs(pl) = pl

\* the ranking is displayed, after a result, with a record of ratings 2000,
\* 4000, 2100
C5_Witness ==
    /\ out = <<"Rank">>
    /\ \E k \in 1..Len(pl) :
          pl[k].aligRating = 2000 /\ pl[k].mmr = 4000 /\ pl[k].elo = 2100 * EloScale
    /\ Len(logf) >= 1

----------------------------------------------------------------------------
(* C6 *)

\* C6 as stated: when the ranking has just been displayed, the records are
\* in descending sr order and records of equal sr are in the order in which
\* the player file listed them.
C6_TiesInLoadOrder ==
    out = <<"Rank">> =>
        \A a, b \in 1..Len(pl) :
            a < b =>
                \/ pl[a].sr > pl[b].sr
                \/ pl[a].sr = pl[b].sr /\ pl[a].id < pl[b].id

\* C6 amended: a display of the ranking leaves the records in descending sr
\* order, records of equal sr in the order they had in the list before this
\* display: the order of the player file at the first display, afterwards
\* the order the display before left.
C6_TiesInListOrder ==
    [][(pc = "loop" /\ out' = <<"Rank">>) =>
          \A a, b \in 1..Len(pl') :
              a < b =>
                  \/ pl'[a].sr > pl'[b].sr
                  \/ /\ pl'[a].sr = pl'[b].sr
                     /\ PositionOf(pl, pl'[a].id) < PositionOf(pl, pl'[b].id)]_vars

\* the ranking is displayed with two records of equal sr, the one the player
\* file lists later first
C6_Witness ==
    /\ out = <<"Rank">>
    /\ \E a, b \in 1..Len(pl) :
          a < b /\ pl[a].sr = pl[b].sr /\ pl[a].id > pl[b].id

----------------------------------------------------------------------------
(* C7 *)

\* the ratings of the returned teams whose id is the player's bnet id
MatchingRatings(p, teams) ==
    { teams[k].rating : k \in {h \in 1..Len(teams) : Str(teams[h].id) = p.bnet} }
Maximum(S) == CHOOSE x \in S : \A y \in S : y <= x

\* C7: after the ladder fetch every player's mmr is the maximum rating of the
\* returned teams matching the player's bnet id, and is unchanged when no
\* returned team matches.
C7_LadderIsMaximum ==
    [][\A teams \in TeamLists :
          (pc = "mmrs" /\ pl' = setMMRs(pl, teams)) =>
              \A k \in 1..Len(pl) :
                  pl'[k].mmr =
                      IF MatchingRatings(pl[k], teams) = {} THEN pl[k].mmr
                      ELSE Maximum(MatchingRatings(pl[k], teams))]_vars

----------------------------------------------------------------------------
(* C8 *)

\* C8: only "exit" writes the player file, one line per record with its
\* current elo, and ends the session; "forcequit" ends the session leaving
\* the file as loaded; no other input writes the file or ends the session.
C8_OnlyExitWrites ==
    [][pc = "loop" =>
          \/ /\ pc' = "ended"
             /\ file' = savePlayersToFile(pl)
             /\ \A k \in 1..Len(pl) : file'[k].elo = pl[k].elo
          \/ /\ pc' = "ended"
             /\ file' = file
             /\ file = [k \in 1..Len(file) |-> AllLines[k]]
          \/ /\ pc' = "loop"
             /\ file' = file]_vars

----------------------------------------------------------------------------
(* C9 *)

\* the change to the elo of the player at i under each outcome of a game
\* between the players at i and j
DeltaAWins(i, j) == result(pl, i, j, 1)[i].elo - pl[i].elo
DeltaBWins(i, j) == result(pl, i, j, 2)[i].elo - pl[i].elo
Pairs == {ij \in (1..Len(pl)) \X (1..Len(pl)) : ij[1] # ij[2]}

\* C9 as stated: the change to A under "A wins" is the negation of the change
\* to A under "B wins", from the same ratings.
C9_MirrorDeltas ==
    pc = "loop" =>
    \A ij \in Pairs : DeltaAWins(ij[1], ij[2]) = -DeltaBWins(ij[1], ij[2])

\* C9 amended: from the same ratings the change to A under "A wins" is
\* K_FACTOR points more than the change to A under "B wins" (K * (1 - exp)
\* against -K * exp); the two are negations of each other when the two
\* ratings are equal.
C9_DeltasDifferByK ==
    pc = "loop" =>
    \A ij \in Pairs :
        /\ DeltaAWins(ij[1], ij[2]) - DeltaBWins(ij[1], ij[2]) = K_FACTOR * EloScale
        /\ DeltaAWins(ij[1], ij[2]) >= 0
        /\ DeltaBWins(ij[1], ij[2]) <= 0
        /\ pl[ij[1]].elo = pl[ij[2]].elo =>
              DeltaAWins(ij[1], ij[2]) = -DeltaBWins(ij[1], ij[2])

\* in the loop, with a pair of equal ratings and a pair of unequal ratings
\* whose two changes are not mirror images
C9_Witness ==
    /\ pc = "loop"
    /\ \E ij \in Pairs : pl[ij[1]].elo = pl[ij[2]].elo
    /\ \E ij \in Pairs :
          /\ pl[ij[1]].elo # pl[ij[2]].elo
          /\ DeltaAWins(ij[1], ij[2]) # -DeltaBWins(ij[1], ij[2])

----------------------------------------------------------------------------
(* C10 *)

\* C10 as stated: an applied result updates, for each of its two names, the
\* first record of that name in the list, and no later record of that name.
C10_FirstMatchWins ==
    [][Applied =>
          \A k \in 1..Len(pl) :
              pl'[k].elo # pl[k].elo <=>
                  k \in {FirstNamed(pl, AppliedLine[1]), FirstNamed(pl, AppliedLine[3])}]_vars

\* C10 amended: an applied result updates, for each of its two names, the
\* last record of that name in the list as it stands (the list is re-ordered
\* by every display of the ranking), and no earlier record of that name.
C10_LastMatchWins ==
    [][Applied =>
          \A k \in 1..Len(pl) :
              pl'[k].elo # pl[k].elo <=>
                  k \in {LastNamed(pl, AppliedLine[1]), LastNamed(pl, AppliedLine[3])}]_vars

\* a result has been applied to a roster holding two records of one name:
\* the later one has moved, the earlier one has not
C10_Witness ==
    /\ Len(logf) >= 1
    /\ \E a, b \in 1..Len(pl) :
          /\ a < b
          /\ pl[a].name = pl[b].name
          /\ pl[a].elo = AllLines[pl[a].id].elo
          /\ pl[b].elo # AllLines[pl[b].id].elo

====
